---- MODULE Spec2Model ----
(***************************************************************************)
(* safekubectl: the argument parser (internal/parser), the danger checker  *)
(* (internal/checker), the policy queries (internal/config), the           *)
(* confirmation prompt (internal/prompt) and the orchestration of          *)
(* Runner.Run (main.go), modelled as a state machine.                      *)
(*                                                                         *)
(* Tokens, namespaces, clusters and stdin are TLA+ strings; the string     *)
(* functions of the Go code (HasPrefix, Contains, TrimPrefix, SplitN,      *)
(* ToLower, TrimSpace, ReadString) are computed character by character.    *)
(***************************************************************************)
EXTENDS Integers, Sequences, FiniteSets, TLC

VARIABLES
    args,        \* the argument list handed to Run / Parse
    files,       \* what manifest.Parse returns for each source named by args
    loadErr,     \* whether loadConfig returns an error
    kubectlErr,  \* the error r.executeKubectl returns, "nil" for none
    other,       \* the result of a second call, kept beside the first
    cfg,         \* the *config.Config returned by loadConfig
    envCluster,  \* what getCluster() returns
    envNS,       \* what getContextNamespace() returns
    stdin,       \* the bytes of r.stdin not yet consumed
    pc,          \* position inside Run
    cmd,         \* the *parser.KubectlCommand
    cluster,     \* the local variable cluster of Run
    result,      \* the *CheckResult or *ResourceCheckResult
    resources,   \* allResources of runWithFileInputs
    fileIdx,     \* index of the next entry of cmd.FileInputs to resolve
    stdout,      \* what has been written to r.stdout, one entry per message
    stderr,      \* what has been written to r.stderr
    asked,       \* one record per AskConfirmationFrom call
    execCalls,   \* the argument lists executeKubectl was called with
    auditCalls,  \* the calls of auditLogger.Log
    ret          \* the value Run returned

vars == <<args, files, loadErr, kubectlErr, other, cfg, envCluster, envNS, stdin, pc, cmd, cluster, result,
          resources, fileIdx, stdout, stderr, asked, execCalls, auditCalls, ret>>

(* Bounds of the model *)

\* longest token list drawn for the parser
MaxArgs == 4

\* longest alternative payload put after a `--` separator
MaxTail == 1

\* longest resource list handed to CheckResources on its own
MaxResources == 3

(* Go string functions *)

\* the i-th byte of s
CharAt(s, i) == SubSeq(s, i, i)

\* strings.HasPrefix
HasPrefix(s, p) == Len(s) >= Len(p) /\ SubSeq(s, 1, Len(p)) = p

\* the prefix left in place
TrimPrefixKeeping(s, p) == s

\* strings.TrimPrefix
TrimPrefix(s, p) == IF HasPrefix(s, p) THEN SubSeq(s, Len(p) + 1, Len(s)) ELSE s

\* strings.Contains(s, c) for a one-byte c
Contains(s, c) == \E i \in 1..Len(s) : CharAt(s, i) = c

\* strings.Index(s, c) for a one-byte c, 1-based; 0 when c does not occur
IndexOf(s, c) ==
    IF Contains(s, c)
    THEN CHOOSE i \in 1..Len(s) :
            /\ CharAt(s, i) = c
            /\ \A j \in 1..(i - 1) : CharAt(s, j) # c
    ELSE 0

\* strings.SplitN(s, c, 2)[0] and [1], for s containing c
SplitHead(s, c) == SubSeq(s, 1, IndexOf(s, c) - 1)
SplitTail(s, c) == SubSeq(s, IndexOf(s, c) + 1, Len(s))

\* strings.Split(s, "=")[0]
BeforeEquals(s) == IF Contains(s, "=") THEN SplitHead(s, "=") ELSE s

UpperLetters == "ABCDEFGHIJKLMNOPQRSTUVWXYZ"
LowerLetters == "abcdefghijklmnopqrstuvwxyz"

LowerChar(c) ==
    IF Contains(UpperLetters, c) THEN CharAt(LowerLetters, IndexOf(UpperLetters, c)) ELSE c

\* strings.ToLower
RECURSIVE ToLower(_)
ToLower(s) == IF s = "" THEN "" ELSE LowerChar(CharAt(s, 1)) \o ToLower(Tail(s))

IsSpace(c) == c \in {" ", "\t", "\n", "\r", "\f"}

RECURSIVE TrimLeft(_)
TrimLeft(s) == IF s # "" /\ IsSpace(CharAt(s, 1)) THEN TrimLeft(Tail(s)) ELSE s

RECURSIVE TrimRight(_)
TrimRight(s) ==
    IF s # "" /\ IsSpace(CharAt(s, Len(s))) THEN TrimRight(SubSeq(s, 1, Len(s) - 1)) ELSE s

\* strings.TrimSpace
TrimSpace(s) == TrimRight(TrimLeft(s))

(* internal/parser *)

nodeScopedOperations == {"cordon", "uncordon", "drain", "taint"}

fileInputOperations ==
    {"apply", "delete", "create", "replace", "patch", "annotate", "label", "scale"}

operationsWithSubcommands(op) ==
    CASE op = "rollout" -> {"restart", "status", "undo", "history", "pause", "resume"}
      [] op = "config"  -> {"view", "use-context", "set-context", "delete-context",
                            "get-contexts", "current-context"}
      [] op = "set"     -> {"image", "env", "resources", "selector", "serviceaccount",
                            "subject"}
      [] OTHER          -> {}

valueFlags ==
    {"-n", "--namespace", "-f", "--filename", "-k", "--kustomize", "-l", "--selector",
     "-o", "--output", "--context", "--cluster", "--user", "--kubeconfig",
     "-c", "--container", "--field-selector", "--sort-by", "--template",
     "-p", "--patch", "--type", "--timeout", "--grace-period", "--tail", "--since",
     "--since-time", "--limit-bytes", "--address", "--image", "--replicas", "--for"}

needsValueNever(flag) == FALSE

needsValue(flag) == BeforeEquals(flag) \in valueFlags

\* findOperation, entered at index i (1-based)
RECURSIVE findOperationFrom(_, _)
findOperationFrom(a, i) ==
    IF i > Len(a) THEN ""
    ELSE IF HasPrefix(a[i], "-")
         THEN IF Contains(a[i], "=") THEN findOperationFrom(a, i + 1)
              ELSE IF needsValue(a[i]) /\ i < Len(a) THEN findOperationFrom(a, i + 2)
              ELSE findOperationFrom(a, i + 1)
         ELSE a[i]

\* the first token without a leading "-", whatever stands before it
findOperationPlain(a) ==
    IF \E i \in DOMAIN a : ~HasPrefix(a[i], "-")
    THEN a[CHOOSE i \in DOMAIN a :
               ~HasPrefix(a[i], "-") /\ \A j \in 1..(i - 1) : HasPrefix(a[j], "-")]
    ELSE ""

findOperation(a) == findOperationFrom(a, 1)

NewCommand(a) ==
    [Operation |-> "", Resource |-> "", Name |-> "", Namespace |-> "", Context |-> "",
     Args |-> a, FileInputs |-> <<>>, Recursive |-> FALSE, AllNamespaces |-> FALSE,
     DryRun |-> FALSE]

\* the file-input branch shared by both loops of Parse: TRUE when the token at i
\* is consumed as a file input
IsFileInputAt(a, i, usesFileInput) ==
    /\ usesFileInput
    /\ \/ a[i] \in {"-f", "--filename"} /\ i < Len(a)
       \/ a[i] \notin {"-f", "--filename"} /\ HasPrefix(a[i], "-f=")
       \/ a[i] \notin {"-f", "--filename"} /\ HasPrefix(a[i], "--filename=")

FileInputValue(a, i) ==
    IF a[i] \in {"-f", "--filename"} THEN a[i + 1]
    ELSE IF HasPrefix(a[i], "-f=") THEN TrimPrefix(a[i], "-f=")
    ELSE TrimPrefix(a[i], "--filename=")

FileInputWidth(a, i) == IF a[i] \in {"-f", "--filename"} THEN 2 ELSE 1

IsRecursiveFlag(t) == t = "-R" \/ t = "--recursive"

IsAllNamespacesFlag(t) == t = "-A" \/ t = "--all-namespaces"

IsDryRunFlag(t) == t = "--dry-run" \/ HasPrefix(t, "--dry-run=")

\* the loop over the leading flags; yields <<i, cmd>> as the loop leaves them
RECURSIVE LeadingFlags(_, _, _, _)
LeadingFlags(a, i, c, usesFileInput) ==
    IF ~(i <= Len(a) /\ HasPrefix(a[i], "-")) THEN <<i, c>>
    ELSE IF IsFileInputAt(a, i, usesFileInput)
         THEN LeadingFlags(a, i + FileInputWidth(a, i),
                  [c EXCEPT !.FileInputs = Append(@, FileInputValue(a, i))], usesFileInput)
    ELSE IF IsRecursiveFlag(a[i])
         THEN LeadingFlags(a, i + 1, [c EXCEPT !.Recursive = TRUE], usesFileInput)
    ELSE IF IsAllNamespacesFlag(a[i])
         THEN LeadingFlags(a, i + 1, [c EXCEPT !.AllNamespaces = TRUE], usesFileInput)
    ELSE IF IsDryRunFlag(a[i])
         THEN LeadingFlags(a, i + 1, [c EXCEPT !.DryRun = TRUE], usesFileInput)
    ELSE IF Contains(a[i], "=")
         THEN LeadingFlags(a, i + 1,
                  IF HasPrefix(a[i], "-n=")
                  THEN [c EXCEPT !.Namespace = TrimPrefix(a[i], "-n=")]
                  ELSE IF HasPrefix(a[i], "--namespace=")
                  THEN [c EXCEPT !.Namespace = TrimPrefix(a[i], "--namespace=")]
                  ELSE IF HasPrefix(a[i], "--context=")
                  THEN [c EXCEPT !.Context = TrimPrefix(a[i], "--context=")]
                  ELSE c,
                  usesFileInput)
    ELSE IF needsValue(a[i]) /\ i < Len(a)
         THEN LeadingFlags(a, i + 2,
                  [c EXCEPT !.Namespace = IF a[i] \in {"-n", "--namespace"}
                                          THEN a[i + 1] ELSE @,
                            !.Context = IF a[i] = "--context" THEN a[i + 1] ELSE @],
                  usesFileInput)
    ELSE LeadingFlags(a, i + 1, c, usesFileInput)

\* "First non-flag argument is the operation"; yields <<i, cmd>>
TakeOperation(a, i, c) ==
    IF i <= Len(a) THEN <<i + 1, [c EXCEPT !.Operation = a[i]]>> ELSE <<i, c>>

\* "Skip the subcommand"; yields i
SkipSubcommand(a, i, subcommands) ==
    IF subcommands # {} /\ i <= Len(a) /\ a[i] \in subcommands THEN i + 1 ELSE i

\* a positional token taken whole, the "/" not looked at
TakePositionalNoSplit(c, t) ==
    IF c.Resource = "" THEN [c EXCEPT !.Resource = t]
    ELSE IF c.Name = "" THEN [c EXCEPT !.Name = t]
    ELSE c

\* a positional token of the main loop
TakePositional(c, t) ==
    IF c.Resource = ""
    THEN IF Contains(t, "/")
         THEN [c EXCEPT !.Resource = SplitHead(t, "/"), !.Name = SplitTail(t, "/")]
         ELSE [c EXCEPT !.Resource = t]
    ELSE IF c.Name = "" THEN [c EXCEPT !.Name = t]
    ELSE c

\* the loop "Parse remaining arguments for resource, name, namespace, and context"
RECURSIVE MainLoop(_, _, _, _)
MainLoop(a, i, c, usesFileInput) ==
    IF i > Len(a) THEN c
    ELSE IF a[i] = "--" THEN c
    ELSE IF IsFileInputAt(a, i, usesFileInput)
         THEN MainLoop(a, i + FileInputWidth(a, i),
                  [c EXCEPT !.FileInputs = Append(@, FileInputValue(a, i))], usesFileInput)
    ELSE IF IsRecursiveFlag(a[i])
         THEN MainLoop(a, i + 1, [c EXCEPT !.Recursive = TRUE], usesFileInput)
    ELSE IF IsAllNamespacesFlag(a[i])
         THEN MainLoop(a, i + 1, [c EXCEPT !.AllNamespaces = TRUE], usesFileInput)
    ELSE IF IsDryRunFlag(a[i])
         THEN MainLoop(a, i + 1, [c EXCEPT !.DryRun = TRUE], usesFileInput)
    ELSE IF a[i] \in {"-n", "--namespace"} /\ i < Len(a)
         THEN MainLoop(a, i + 2, [c EXCEPT !.Namespace = a[i + 1]], usesFileInput)
    ELSE IF a[i] \notin {"-n", "--namespace"} /\ HasPrefix(a[i], "-n=")
         THEN MainLoop(a, i + 1, [c EXCEPT !.Namespace = TrimPrefix(a[i], "-n=")],
                  usesFileInput)
    ELSE IF a[i] \notin {"-n", "--namespace"} /\ HasPrefix(a[i], "--namespace=")
         THEN MainLoop(a, i + 1, [c EXCEPT !.Namespace = TrimPrefix(a[i], "--namespace=")],
                  usesFileInput)
    ELSE IF a[i] = "--context" /\ i < Len(a)
         THEN MainLoop(a, i + 2, [c EXCEPT !.Context = a[i + 1]], usesFileInput)
    ELSE IF a[i] # "--context" /\ HasPrefix(a[i], "--context=")
         THEN MainLoop(a, i + 1, [c EXCEPT !.Context = TrimPrefix(a[i], "--context=")],
                  usesFileInput)
    ELSE IF HasPrefix(a[i], "-")
         THEN IF Contains(a[i], "=") THEN MainLoop(a, i + 1, c, usesFileInput)
              ELSE IF needsValue(a[i]) /\ i < Len(a) THEN MainLoop(a, i + 2, c, usesFileInput)
              ELSE MainLoop(a, i + 1, c, usesFileInput)
    ELSE MainLoop(a, i + 1, TakePositional(c, a[i]), usesFileInput)

UsesFileInputAlways(a) == TRUE

\* the first-pass result that selects the file-input mode
UsesFileInput(a) == findOperation(a) \in fileInputOperations

Parse(a) ==
    IF Len(a) = 0 THEN NewCommand(a)
    ELSE LET uses == UsesFileInput(a)
             lead == LeadingFlags(a, 1, NewCommand(a), uses)
             oper == TakeOperation(a, lead[1], lead[2])
             next == SkipSubcommand(a, oper[1], operationsWithSubcommands(findOperation(a)))
         IN  MainLoop(a, next, oper[2], uses)

GetResourceDisplay(c) ==
    IF c.Resource = "" THEN "<unknown>"
    ELSE IF c.Name # "" THEN c.Resource \o "/" \o c.Name
    ELSE c.Resource

GetNamespaceDisplay(c) == IF c.Namespace = "" THEN "default" ELSE c.Namespace

IsNodeScoped(c) == c.Operation \in nodeScopedOperations

(* internal/config *)

ModeConfirm == "confirm"
ModeWarnOnly == "warn-only"

DefaultDangerousOperations ==
    <<"delete", "apply", "patch", "edit", "update", "rollout", "drain", "exec",
      "cordon", "taint">>

DefaultConfig ==
    [Mode |-> ModeConfirm,
     DangerousOperations |-> DefaultDangerousOperations,
     ProtectedNamespaces |-> <<"kube-system">>,
     ProtectedClusters |-> <<>>,
     AuditEnabled |-> FALSE]

\* the loop of IsDangerousOperation / IsProtectedNamespace / IsProtectedCluster
InList(list, x) == \E i \in 1..Len(list) : list[i] = x

IsDangerousOperationAlways(config, operation) == TRUE

IsDangerousOperation(config, operation) == InList(config.DangerousOperations, operation)

IsProtectedNamespace(config, namespace) == InList(config.ProtectedNamespaces, namespace)

IsProtectedCluster(config, cl) == InList(config.ProtectedClusters, cl)

RequiresConfirmation(config, namespace, cl) ==
    IF config.Mode = ModeConfirm THEN TRUE
    ELSE IsProtectedNamespace(config, namespace) \/ IsProtectedCluster(config, cl)

(* internal/checker *)

AllNamespacesReason == "AFFECTS ALL NAMESPACES (-A/--all-namespaces)"

\* the CheckResult as Check builds it before any test
NewCheckResult(c, cl) ==
    [IsDangerous |-> FALSE, RequiresConfirmation |-> FALSE,
     IsNodeScoped |-> IsNodeScoped(c), IsAllNamespaces |-> c.AllNamespaces,
     IsDryRun |-> c.DryRun, Operation |-> c.Operation,
     Resource |-> GetResourceDisplay(c), Namespace |-> GetNamespaceDisplay(c),
     Cluster |-> cl, Reasons |-> <<>>]

CheckReasonsClusterFirst(config, c, cl) ==
    <<"dangerous operation: " \o c.Operation>>
    \o (IF c.AllNamespaces THEN <<AllNamespacesReason>> ELSE <<>>)
    \o (IF IsProtectedCluster(config, cl) THEN <<"protected cluster: " \o cl>> ELSE <<>>)
    \o (IF ~c.AllNamespaces /\ ~IsNodeScoped(c)
           /\ IsProtectedNamespace(config, GetNamespaceDisplay(c))
        THEN <<"protected namespace: " \o GetNamespaceDisplay(c)>> ELSE <<>>)

\* the Reasons without the one naming the operation
CheckReasonsWithoutOperation(config, c, cl) ==
    (IF c.AllNamespaces THEN <<AllNamespacesReason>> ELSE <<>>)
    \o (IF ~c.AllNamespaces /\ ~IsNodeScoped(c)
           /\ IsProtectedNamespace(config, GetNamespaceDisplay(c))
        THEN <<"protected namespace: " \o GetNamespaceDisplay(c)>> ELSE <<>>)
    \o (IF IsProtectedCluster(config, cl) THEN <<"protected cluster: " \o cl>> ELSE <<>>)

\* the Reasons that Check appends for a dangerous operation
CheckReasons(config, c, cl) ==
    <<"dangerous operation: " \o c.Operation>>
    \o (IF c.AllNamespaces THEN <<AllNamespacesReason>> ELSE <<>>)
    \o (IF ~c.AllNamespaces /\ ~IsNodeScoped(c)
           /\ IsProtectedNamespace(config, GetNamespaceDisplay(c))
        THEN <<"protected namespace: " \o GetNamespaceDisplay(c)>> ELSE <<>>)
    \o (IF IsProtectedCluster(config, cl) THEN <<"protected cluster: " \o cl>> ELSE <<>>)

CheckConfirmationByModeOnly(config, c, cl) ==
    RequiresConfirmation(config, GetNamespaceDisplay(c), cl)

\* the RequiresConfirmation that Check computes for a dangerous operation
CheckConfirmation(config, c, cl) ==
    IF c.AllNamespaces THEN TRUE
    ELSE RequiresConfirmation(config, GetNamespaceDisplay(c), cl)

CheckIgnoringDryRun(config, c, cl) ==
    IF ~IsDangerousOperation(config, c.Operation) THEN NewCheckResult(c, cl)
    ELSE [NewCheckResult(c, cl) EXCEPT
             !.IsDangerous = TRUE,
             !.Reasons = CheckReasons(config, c, cl),
             !.RequiresConfirmation = CheckConfirmation(config, c, cl)]

Check(config, c, cl) ==
    IF c.DryRun THEN NewCheckResult(c, cl)
    ELSE IF ~IsDangerousOperation(config, c.Operation) THEN NewCheckResult(c, cl)
    ELSE [NewCheckResult(c, cl) EXCEPT
             !.IsDangerous = TRUE,
             !.Reasons = CheckReasons(config, c, cl),
             !.RequiresConfirmation = CheckConfirmation(config, c, cl)]

(* Values of the variables that an operation has not set yet *)

NoCommand == NewCommand(<<>>)

NoResult == NewCheckResult(NoCommand, "")

(* Inputs *)

\* the tokens the parser is run on
Tokens ==
    {"--", "-f", "-f=a.yaml", "--filename", "-n", "-A", "--dry-run", "--dry-run=client",
     "--context=prod", "-o", "delete", "logs", "rollout", "restart", "pod/nginx",
     "/nginx", "kube-system"}

\* the token lists of length n
TokenLists(n) == [1..n -> Tokens]

\* the payloads put after a `--` separator for comparison
TailLists(n) == UNION {[1..k -> Tokens] : k \in 0..n}

\* command lines for the checker: leading flags, operation, resource, namespace,
\* context, all-namespaces and dry-run flags in their spellings
EvalLead == {<<>>, <<"-A">>, <<"-n=kube-system">>}
EvalOperation == {<<>>, <<"delete">>, <<"get">>, <<"drain">>, <<"scale">>}
EvalResource == {<<>>, <<"pod/nginx">>}
EvalNamespace == {<<>>, <<"-n", "kube-system">>, <<"--namespace=production">>,
                  <<"-n", "default">>}
EvalContext == {<<>>, <<"--context", "prod-cluster">>}
EvalAllNamespaces == {<<>>, <<"--all-namespaces">>}
EvalDryRun == {<<>>, <<"--dry-run=client">>, <<"--", "--dry-run">>}

EvalArgLists ==
    {l \o o \o r \o n \o c \o a \o d :
        l \in EvalLead, o \in EvalOperation, r \in EvalResource, n \in EvalNamespace,
        c \in EvalContext, a \in EvalAllNamespaces, d \in EvalDryRun}

Clusters == {"dev-cluster", "prod-cluster"}

EvalConfigs ==
    {[Mode |-> m, DangerousOperations |-> d, ProtectedNamespaces |-> n,
      ProtectedClusters |-> c, AuditEnabled |-> FALSE] :
        m \in {ModeConfirm, ModeWarnOnly},
        d \in {DefaultDangerousOperations, <<"scale", "get">>},
        n \in {<<>>, <<"kube-system">>, <<"default", "production">>},
        c \in {<<>>, <<"prod-cluster">>}}

(* The parser alone: Parse applied to a token list *)

IdleRun ==
    /\ files = <<>>
    /\ loadErr = FALSE
    /\ kubectlErr = "nil"
    /\ stdin = ""
    /\ envNS = ""
    /\ cmd = NoCommand
    /\ cluster = ""
    /\ result = NoResult
    /\ resources = <<>>
    /\ fileIdx = 1
    /\ stdout = <<>>
    /\ stderr = <<>>
    /\ asked = <<>>
    /\ execCalls = <<>>
    /\ auditCalls = <<>>
    /\ ret = "none"

InitParse ==
    /\ \E n \in 0..MaxArgs : args \in TokenLists(n)
    /\ cfg = DefaultConfig
    /\ envCluster = ""
    /\ pc = "parse"
    /\ other = NoCommand
    /\ IdleRun

ParseTokens ==
    /\ pc = "parse"
    /\ cmd' = Parse(args)
    /\ pc' = "parsed"
    /\ UNCHANGED <<args, files, loadErr, kubectlErr, other, cfg, envCluster, envNS, stdin, cluster, result, resources,
                   fileIdx, stdout, stderr, asked, execCalls, auditCalls, ret>>

NextParse == ParseTokens

SpecParse == InitParse /\ [][NextParse]_vars

(* The two spellings of a resource: Parse([op, K, N]) beside Parse([op, K/N]) *)

SlashOperations == {"delete", "get", "describe", "rollout", "set", "apply"}

SlashKinds == {"pod", "deployment", "serviceaccount", "restart", "svc"}

SlashNames == {"nginx", "web", "a.b", "status", "web/v1"}

\* the slash form of the command line <<op, K, N>>
SlashForm(a) == <<a[1], a[2] \o "/" \o a[3]>>

InitSlash ==
    /\ args \in {<<o, k, n>> : o \in SlashOperations, k \in SlashKinds, n \in SlashNames}
    /\ cfg = DefaultConfig
    /\ envCluster = ""
    /\ pc = "separate"
    /\ other = NoCommand
    /\ IdleRun

ParseSeparate ==
    /\ pc = "separate"
    /\ cmd' = Parse(args)
    /\ pc' = "slash"
    /\ UNCHANGED <<args, files, loadErr, kubectlErr, other, cfg, envCluster, envNS, stdin, cluster,
                   result, resources, fileIdx, stdout, stderr, asked, execCalls,
                   auditCalls, ret>>

ParseSlash ==
    /\ pc = "slash"
    /\ other' = Parse(SlashForm(args))
    /\ pc' = "compared"
    /\ UNCHANGED <<args, files, loadErr, kubectlErr, cfg, envCluster, envNS, stdin, cmd, cluster,
                   result, resources, fileIdx, stdout, stderr, asked, execCalls,
                   auditCalls, ret>>

NextSlash == ParseSeparate \/ ParseSlash

SpecSlash == InitSlash /\ [][NextSlash]_vars

(* The checker: Parse, then Check against a policy and a cluster *)

InitEval ==
    /\ args \in EvalArgLists
    /\ cfg \in EvalConfigs
    /\ envCluster \in Clusters
    /\ pc = "eval"
    /\ other = NoResult
    /\ IdleRun

EvalParse ==
    /\ pc = "eval"
    /\ cmd' = Parse(args)
    /\ cluster' = IF cmd'.Context = "" THEN envCluster ELSE cmd'.Context
    /\ pc' = "evalcheck"
    /\ UNCHANGED <<args, files, loadErr, kubectlErr, other, cfg, envCluster, envNS, stdin, result, resources,
                   fileIdx, stdout, stderr, asked, execCalls, auditCalls, ret>>

EvalCheck ==
    /\ pc = "evalcheck"
    /\ result' = Check(cfg, cmd, cluster)
    /\ pc' = "evaluated"
    /\ UNCHANGED <<args, files, loadErr, kubectlErr, other, cfg, envCluster, envNS, stdin, cmd, cluster, resources,
                   fileIdx, stdout, stderr, asked, execCalls, auditCalls, ret>>

NextEval == EvalParse \/ EvalCheck

SpecEval == InitEval /\ [][NextEval]_vars

(* internal/checker: CheckResources *)

\* the namespace CheckResources tests for a resource
ResourceNamespace(r) == IF r.Namespace = "" THEN "default" ELSE r.Namespace

\* the keys of the map protectedNamespaces
ProtectedNamespacesOf(config, res) ==
    {ResourceNamespace(res[i]) : i \in {j \in DOMAIN res :
        IsProtectedNamespace(config, ResourceNamespace(res[j]))}}

\* the orders in which `for ns := range protectedNamespaces` may visit the keys
MapOrders(S) ==
    {o \in [1..Cardinality(S) -> S] : \A i, j \in 1..Cardinality(S) : o[i] = o[j] => i = j}

NamespaceReasons(order) == [i \in DOMAIN order |-> "protected namespace: " \o order[i]]

\* one visit per resource lying in a protected namespace, in the order of the list
NamespaceVisitsPerResource(config, res) ==
    LET hit == SelectSeq(res, LAMBDA r : IsProtectedNamespace(config, ResourceNamespace(r)))
    IN  {[i \in DOMAIN hit |-> ResourceNamespace(hit[i])]}

\* the sequences of keys `for ns := range protectedNamespaces` may produce
NamespaceVisits(config, res) == MapOrders(ProtectedNamespacesOf(config, res))

ResourcesConfirmationByModeOnly(config, res, cl) == config.Mode = ModeConfirm

\* "Determine if confirmation required"
ResourcesConfirmation(config, res, cl) ==
    \/ config.Mode = ModeConfirm
    \/ Cardinality(ProtectedNamespacesOf(config, res)) > 0
    \/ IsProtectedCluster(config, cl)

NewResourceCheckResult(operation, res, cl) ==
    [IsDangerous |-> FALSE, RequiresConfirmation |-> FALSE, Operation |-> operation,
     Cluster |-> cl, Resources |-> res, Reasons |-> <<>>]

\* the results CheckResources can return; one per iteration order of the map
CheckResources(config, operation, res, cl) ==
    IF ~IsDangerousOperation(config, operation)
    THEN {NewResourceCheckResult(operation, res, cl)}
    ELSE {[NewResourceCheckResult(operation, res, cl) EXCEPT
              !.IsDangerous = TRUE,
              !.Reasons = <<"dangerous operation: " \o operation>>
                          \o NamespaceReasons(order)
                          \o (IF IsProtectedCluster(config, cl)
                              THEN <<"protected cluster: " \o cl>> ELSE <<>>),
              !.RequiresConfirmation = ResourcesConfirmation(config, res, cl)] :
           order \in NamespaceVisits(config, res)}

(* internal/prompt *)

WarningText == "DANGEROUS OPERATION DETECTED"
PromptText == "Proceed? [y/N]: "
AbortedText == "Operation aborted."
ProceedingText == "Proceeding with operation..."
URLWarningText == "REMOTE MANIFEST WARNING"

\* reader.ReadString('\n') on a fresh bufio.Reader over the unread stdin s
ReadString(s) ==
    IF Contains(s, "\n")
    THEN [line |-> SubSeq(s, 1, IndexOf(s, "\n")), ok |-> TRUE]
    ELSE [line |-> s, ok |-> FALSE]

\* a variant that drops the error of ReadString
AskConfirmationIgnoringReadError(s) ==
    LET response == TrimSpace(ToLower(ReadString(s).line))
    IN  response = "y" \/ response = "yes"

\* the boolean AskConfirmationFrom returns
AskConfirmationFrom(s) ==
    IF ~ReadString(s).ok THEN FALSE
    ELSE LET response == TrimSpace(ToLower(ReadString(s).line))
         IN  response = "y" \/ response = "yes"

\* what may be left of stdin once the bufio.Reader of one AskConfirmationFrom
\* call is dropped: the reader takes at least the line, and as much more of the
\* input as its Read calls returned
StdinAfterAsk(s) ==
    IF Contains(s, "\n")
    THEN {SubSeq(s, k + 1, Len(s)) : k \in IndexOf(s, "\n")..Len(s)}
    ELSE {""}

AskRecord(kind, s) ==
    [kind |-> kind, input |-> s, line |-> ReadString(s).line, ok |-> ReadString(s).ok,
     confirmed |-> AskConfirmationFrom(s)]

(* internal/manifest *)

IsURL(s) == HasPrefix(s, "http://") \/ HasPrefix(s, "https://")

Resource(kind, name, namespace) == [Kind |-> kind, Name |-> name, Namespace |-> namespace]

\* what manifest.Parse may return for one source: an error, or the resources
\* of the documents it holds
ManifestError == [err |-> TRUE, resources |-> <<>>]

ManifestContents ==
    {<<>>,
     <<Resource("Deployment", "nginx", "kube-system")>>,
     <<Resource("Deployment", "web", "")>>,
     <<Resource("Service", "web", "staging"), Resource("ConfigMap", "sys", "kube-system")>>}

ManifestOutcomes ==
    {ManifestError} \cup {[err |-> FALSE, resources |-> c] : c \in ManifestContents}

(* CheckResources alone: an operation, a resource list, a policy and a cluster *)

ResNamespaces == {"", "default", "kube-system", "staging"}

\* the resource lists of length n
ResourceLists(n) == [1..n -> {Resource("Pod", "web", ns) : ns \in ResNamespaces}]

ResOperations == {"apply", "get"}

ResConfigs ==
    {[Mode |-> m, DangerousOperations |-> DefaultDangerousOperations,
      ProtectedNamespaces |-> n, ProtectedClusters |-> c, AuditEnabled |-> FALSE] :
        m \in {ModeConfirm, ModeWarnOnly},
        n \in {<<>>, <<"kube-system">>, <<"default", "kube-system">>,
               <<"staging", "kube-system", "default">>},
        c \in {<<>>, <<"prod-cluster">>}}

InitRes ==
    /\ args = <<>>
    /\ cfg \in ResConfigs
    /\ envCluster = ""
    /\ pc = "res"
    /\ other = NoResult
    /\ files = <<>>
    /\ loadErr = FALSE
    /\ kubectlErr = "nil"
    /\ stdin = ""
    /\ envNS = ""
    /\ \E op \in ResOperations : cmd = [NoCommand EXCEPT !.Operation = op]
    /\ cluster \in Clusters
    /\ result = NoResult
    /\ \E n \in 0..MaxResources : resources \in ResourceLists(n)
    /\ fileIdx = 1
    /\ stdout = <<>>
    /\ stderr = <<>>
    /\ asked = <<>>
    /\ execCalls = <<>>
    /\ auditCalls = <<>>
    /\ ret = "none"

\* chk.CheckResources(cmd.Operation, allResources, cluster)
CallCheckResources ==
    /\ pc = "res"
    /\ result' \in CheckResources(cfg, cmd.Operation, resources, cluster)
    /\ pc' = "rescalled"
    /\ UNCHANGED <<args, files, loadErr, kubectlErr, other, cfg, envCluster, envNS, stdin, cmd,
                   cluster, resources, fileIdx, stdout, stderr, asked, execCalls,
                   auditCalls, ret>>

\* the same call once more, on the same checker and the same arguments
CallCheckResourcesAgain ==
    /\ pc = "rescalled"
    /\ other' \in CheckResources(cfg, cmd.Operation, resources, cluster)
    /\ pc' = "resagain"
    /\ UNCHANGED <<args, files, loadErr, kubectlErr, cfg, envCluster, envNS, stdin, cmd, cluster,
                   result, resources, fileIdx, stdout, stderr, asked, execCalls,
                   auditCalls, ret>>

NextRes == CallCheckResources \/ CallCheckResourcesAgain

SpecRes == InitRes /\ [][NextRes]_vars

(* internal/audit *)

AuditStatusExecuted(executed) == "EXECUTED"

\* the entry Logger.Log writes
AuditStatus(executed) == IF executed THEN "EXECUTED" ELSE "DENIED"

AuditCall(confirmed, executed, failed) ==
    [confirmed |-> confirmed, executed |-> executed, status |-> AuditStatus(executed),
     failed |-> failed, written |-> cfg.AuditEnabled /\ ~failed]

AuditWarning == "warning: failed to write audit log"

(* main.go: the inputs of Run *)

RunArgLists ==
    {<<>>,
     <<"get", "pods", "-n", "kube-system">>,
     <<"delete", "pod", "nginx">>,
     <<"delete", "pod", "nginx", "-n", "kube-system">>,
     <<"delete", "pod", "nginx", "--context", "prod-cluster">>,
     <<"--context=prod-cluster", "delete", "pod", "nginx">>,
     <<"--context", "dev-cluster", "apply", "-f", "deploy.yaml">>,
     <<"delete", "pods", "--all", "-A">>,
     <<"delete", "pod", "nginx", "--dry-run=client">>,
     <<"drain", "node-1", "--ignore-daemonsets">>,
     <<"exec", "nginx", "--", "/bin/sh", "-c", "ls">>,
     <<"apply", "-f", "deploy.yaml">>,
     <<"apply", "-f", "deploy.yaml", "--dry-run=client">>,
     <<"apply", "-n", "production", "-f", "a.yaml", "-f", "b.yaml">>,
     <<"apply", "-f", "https://example.com/m.yaml">>,
     <<"delete", "-f", "deploy.yaml", "-A">>,
     <<"scale", "--replicas", "3", "-f", "deploy.yaml">>}

RunConfigs ==
    {[Mode |-> m, DangerousOperations |-> DefaultDangerousOperations,
      ProtectedNamespaces |-> n, ProtectedClusters |-> c, AuditEnabled |-> a] :
        m \in {ModeConfirm, ModeWarnOnly},
        n \in {<<"kube-system">>, <<"production", "staging", "kube-system">>},
        c \in {<<>>, <<"prod-cluster">>},
        a \in BOOLEAN}

Stdins == {"", "y\n", "n\n", "Yes \n", "y", "yes\nn\n", "y\ny\n", "no\ny\n"}

ContextNamespaces == {"", "staging"}

(* main.go: Runner.Run *)

\* what r.executeKubectl may return
KubectlErrors == {"nil", "kubectl error"}

\* the sources manifest.Parse is asked for
FileSources(a) == {Parse(a).FileInputs[i] : i \in DOMAIN Parse(a).FileInputs}

Init ==
    /\ args \in RunArgLists
    /\ files \in [FileSources(args) -> ManifestOutcomes]
    /\ loadErr \in BOOLEAN
    /\ kubectlErr \in KubectlErrors
    /\ other = NoResult
    /\ cfg \in RunConfigs
    /\ envCluster \in Clusters
    /\ envNS \in ContextNamespaces
    /\ stdin \in Stdins
    /\ pc = "start"
    /\ cmd = NoCommand
    /\ cluster = ""
    /\ result = NoResult
    /\ resources = <<>>
    /\ fileIdx = 1
    /\ stdout = <<>>
    /\ stderr = <<>>
    /\ asked = <<>>
    /\ execCalls = <<>>
    /\ auditCalls = <<>>
    /\ ret = "none"

\* the call with the error of kubectl dropped
ExecuteKubectlDroppingError ==
    /\ execCalls' = Append(execCalls, args)
    /\ ret' = "nil"
    /\ pc' = "done"

\* r.executeKubectl(args) and the return of its error
ExecuteKubectl ==
    /\ execCalls' = Append(execCalls, args)
    /\ ret' = kubectlErr
    /\ pc' = "done"

\* control reaches a `return r.executeKubectl(args)` statement
ReachExecute ==
    /\ pc' = "execute"
    /\ UNCHANGED <<execCalls, ret>>

\* the same call with the warning on stderr left out
AuditLogSilent(confirmed, executed) ==
    \E failed \in {f \in BOOLEAN : f => cfg.AuditEnabled} :
        /\ auditCalls' = Append(auditCalls, AuditCall(confirmed, executed, failed))
        /\ stderr' = stderr

\* auditLogger.Log(result, args, confirmed, executed) and the warning on failure
AuditLog(confirmed, executed) ==
    \E failed \in {f \in BOOLEAN : f => cfg.AuditEnabled} :
        /\ auditCalls' = Append(auditCalls, AuditCall(confirmed, executed, failed))
        /\ stderr' = IF failed THEN Append(stderr, AuditWarning) ELSE stderr

\* Run with the error of loadConfig dropped
RunStartIgnoringLoadError ==
    /\ pc = "start"
    /\ IF Len(args) = 0 THEN ReachExecute
       ELSE pc' = "parse" /\ UNCHANGED <<execCalls, ret>>
    /\ UNCHANGED <<args, files, loadErr, kubectlErr, other, cfg, envCluster, envNS, stdin, cmd,
                   cluster, result, resources, fileIdx, stdout, stderr, asked,
                   auditCalls>>

\* Run, lines 47-57: the empty argument list and loadConfig
RunStart ==
    /\ pc = "start"
    /\ IF Len(args) = 0 THEN ReachExecute
       ELSE IF loadErr
       THEN /\ ret' = "failed to load config"
            /\ pc' = "done"
            /\ UNCHANGED execCalls
       ELSE /\ pc' = "parse"
            /\ UNCHANGED <<execCalls, ret>>
    /\ UNCHANGED <<args, files, loadErr, kubectlErr, other, cfg, envCluster, envNS, stdin, cmd,
                   cluster, result, resources, fileIdx, stdout, stderr, asked,
                   auditCalls>>

\* Run with the cluster always taken from getCluster
RunParseCurrentCluster ==
    /\ pc = "parse"
    /\ cmd' = Parse(args)
    /\ cluster' = envCluster
    /\ pc' = IF Len(cmd'.FileInputs) > 0 THEN "resolve" ELSE "check"
    /\ UNCHANGED <<args, files, loadErr, kubectlErr, other, cfg, envCluster, envNS, stdin,
                   result, resources, fileIdx, stdout, stderr, asked, execCalls,
                   auditCalls, ret>>

\* Run, lines 59-71: Parse, the cluster, and the branch on file inputs
RunParse ==
    /\ pc = "parse"
    /\ cmd' = Parse(args)
    /\ cluster' = IF cmd'.Context = "" THEN envCluster ELSE cmd'.Context
    /\ pc' = IF Len(cmd'.FileInputs) > 0 THEN "resolve" ELSE "check"
    /\ UNCHANGED <<args, files, loadErr, kubectlErr, other, cfg, envCluster, envNS, stdin, result,
                   resources, fileIdx, stdout, stderr, asked, execCalls, auditCalls,
                   ret>>

\* Run, lines 73-86 and 100-109: Check, the warning, and the warn-only path
RunCheck ==
    /\ pc = "check"
    /\ result' = Check(cfg, cmd, cluster)
    /\ IF ~result'.IsDangerous
       THEN /\ ReachExecute
            /\ UNCHANGED <<stdout, stderr, auditCalls>>
       ELSE IF result'.RequiresConfirmation
       THEN /\ stdout' = Append(stdout, WarningText)
            /\ pc' = "confirm"
            /\ UNCHANGED <<stderr, auditCalls, execCalls, ret>>
       ELSE /\ stdout' = stdout \o <<WarningText, ProceedingText>>
            /\ AuditLog(TRUE, TRUE)
            /\ ReachExecute
    /\ UNCHANGED <<args, files, loadErr, kubectlErr, other, cfg, envCluster, envNS, stdin, cmd,
                   cluster, resources, fileIdx, asked>>

\* Run, lines 90-99 and 106-109: the confirmation and what follows it
RunConfirm ==
    /\ pc = "confirm"
    /\ asked' = Append(asked, AskRecord("danger", stdin))
    /\ stdin' \in StdinAfterAsk(stdin)
    /\ IF ~AskConfirmationFrom(stdin)
       THEN /\ stdout' = stdout \o <<PromptText, AbortedText>>
            /\ AuditLog(FALSE, FALSE)
            /\ ret' = "nil"
            /\ pc' = "done"
            /\ UNCHANGED execCalls
       ELSE /\ stdout' = Append(stdout, PromptText)
            /\ AuditLog(TRUE, TRUE)
            /\ ReachExecute
    /\ UNCHANGED <<args, files, loadErr, kubectlErr, other, cfg, envCluster, envNS, cmd, cluster,
                   result, resources, fileIdx>>

\* the loop at lines 125-131 with a failed source skipped instead of returned
ResolvedSkippingErrors(outcome) ==
    /\ resources' = resources \o outcome.resources
    /\ fileIdx' = fileIdx + 1
    /\ pc' = IF fileIdx' > Len(cmd.FileInputs) THEN "checkres" ELSE "resolve"
    /\ ret' = ret

\* what follows one manifest.Parse call of the loop at lines 125-131
Resolved(outcome) ==
    IF outcome.err
    THEN /\ ret' = "failed to parse"
         /\ pc' = "done"
         /\ UNCHANGED <<resources, fileIdx>>
    ELSE /\ resources' = resources \o outcome.resources
         /\ fileIdx' = fileIdx + 1
         /\ pc' = IF fileIdx' > Len(cmd.FileInputs) THEN "checkres" ELSE "resolve"
         /\ ret' = ret

\* runWithFileInputs, lines 125-131, for a path; for a URL, up to the prompt
RunResolve ==
    /\ pc = "resolve"
    /\ IF IsURL(cmd.FileInputs[fileIdx])
       THEN /\ stdout' = Append(stdout, URLWarningText)
            /\ pc' = "confirmurl"
            /\ UNCHANGED <<resources, fileIdx, ret>>
       ELSE /\ Resolved(files[cmd.FileInputs[fileIdx]])
            /\ UNCHANGED stdout
    /\ UNCHANGED <<args, files, loadErr, kubectlErr, other, cfg, envCluster, envNS, stdin, cmd,
                   cluster, result, stderr, asked, execCalls, auditCalls>>

\* confirmURL (lines 120-123) and FetchURL / ParseURL after it
RunConfirmURL ==
    /\ pc = "confirmurl"
    /\ asked' = Append(asked, AskRecord("url", stdin))
    /\ stdin' \in StdinAfterAsk(stdin)
    /\ stdout' = Append(stdout, PromptText)
    /\ IF ~AskConfirmationFrom(stdin)
       THEN Resolved(ManifestError)
       ELSE Resolved(files[cmd.FileInputs[fileIdx]])
    /\ UNCHANGED <<args, files, loadErr, kubectlErr, other, cfg, envCluster, envNS, cmd, cluster,
                   result, stderr, execCalls, auditCalls>>

\* the fallback with the context's namespace left out
FallbackNamespaceWithoutContext ==
    IF cmd.Namespace # "" THEN cmd.Namespace ELSE "default"

\* lines 133-140
FallbackNamespace ==
    IF cmd.Namespace # "" THEN cmd.Namespace
    ELSE IF envNS # "" THEN envNS
    ELSE "default"

\* lines 142-146
WithFallback(res) ==
    [i \in DOMAIN res |->
        IF res[i].Namespace = "" THEN [res[i] EXCEPT !.Namespace = FallbackNamespace]
        ELSE res[i]]

\* runWithFileInputs, lines 133-158 and 167-169
RunCheckResources ==
    /\ pc = "checkres"
    /\ resources' = WithFallback(resources)
    /\ result' \in CheckResources(cfg, cmd.Operation, resources', cluster)
    /\ IF ~result'.IsDangerous
       THEN /\ ReachExecute
            /\ UNCHANGED stdout
       ELSE IF result'.RequiresConfirmation
       THEN /\ stdout' = Append(stdout, WarningText)
            /\ pc' = "confirmres"
            /\ UNCHANGED <<execCalls, ret>>
       ELSE /\ stdout' = stdout \o <<WarningText, ProceedingText>>
            /\ ReachExecute
    /\ UNCHANGED <<args, files, loadErr, kubectlErr, other, cfg, envCluster, envNS, stdin, cmd,
                   cluster, fileIdx, stderr, asked, auditCalls>>

\* runWithFileInputs, lines 161-166
RunConfirmResources ==
    /\ pc = "confirmres"
    /\ asked' = Append(asked, AskRecord("danger", stdin))
    /\ stdin' \in StdinAfterAsk(stdin)
    /\ IF ~AskConfirmationFrom(stdin)
       THEN /\ stdout' = stdout \o <<PromptText, AbortedText>>
            /\ ret' = "nil"
            /\ pc' = "done"
            /\ UNCHANGED execCalls
       ELSE /\ stdout' = Append(stdout, PromptText)
            /\ ReachExecute
    /\ UNCHANGED <<args, files, loadErr, kubectlErr, other, cfg, envCluster, envNS, cmd, cluster,
                   result, resources, fileIdx, stderr, auditCalls>>

\* the statements `return r.executeKubectl(args)` of Run and runWithFileInputs
RunExecute ==
    /\ pc = "execute"
    /\ ExecuteKubectl
    /\ UNCHANGED <<args, files, loadErr, kubectlErr, other, cfg, envCluster, envNS, stdin, cmd,
                   cluster, result, resources, fileIdx, stdout, stderr, asked,
                   auditCalls>>

Next ==
    \/ RunStart
    \/ RunParse
    \/ RunCheck
    \/ RunConfirm
    \/ RunResolve
    \/ RunConfirmURL
    \/ RunCheckResources
    \/ RunConfirmResources
    \/ RunExecute

Spec == Init /\ [][Next]_vars

(* Properties of the checker, under SpecEval *)

Evaluated == pc = "evaluated"

\* membership in a list of the policy, spelled out
Listed(list, x) == \E i \in DOMAIN list : list[i] = x

SafeVerdict(r) == ~r.IsDangerous /\ ~r.RequiresConfirmation /\ r.Reasons = <<>>

DangerousRun == Listed(cfg.DangerousOperations, cmd.Operation) /\ ~cmd.DryRun

\* C2: whenever the parse of the token list has DryRun = TRUE, Check returns
\* IsDangerous = FALSE, RequiresConfirmation = FALSE and no reasons, whatever the
\* operation, the mode, the namespace, the cluster and the all-namespaces flag are.
C2_DryRunIsSafe == (Evaluated /\ cmd.DryRun) => SafeVerdict(result)

C2_Witness ==
    /\ Evaluated
    /\ cmd.DryRun
    /\ \E i \in DOMAIN args : args[i] = "--dry-run=client"
    /\ Listed(cfg.DangerousOperations, cmd.Operation)
    /\ cmd.AllNamespaces
    /\ Listed(cfg.ProtectedClusters, cluster)
    /\ cfg.Mode = ModeConfirm
    /\ SafeVerdict(result)

\* C4: when the parsed Operation (the empty operation included) is not in the
\* policy's dangerousOperations, Check returns the all-safe verdict, even in a
\* protected namespace, on a protected cluster, in confirm mode or with -A.
C4_SafeOperationPassesThrough ==
    (Evaluated /\ ~Listed(cfg.DangerousOperations, cmd.Operation)) => SafeVerdict(result)

C4_Witness ==
    /\ Evaluated
    /\ ~cmd.DryRun
    /\ cmd.Operation = "get"
    /\ ~Listed(cfg.DangerousOperations, cmd.Operation)
    /\ Listed(cfg.ProtectedNamespaces, GetNamespaceDisplay(cmd))
    /\ Listed(cfg.ProtectedClusters, cluster)
    /\ cfg.Mode = ModeConfirm
    /\ SafeVerdict(result)

\* C5: a dangerous, non-dry-run command parsed with AllNamespaces = TRUE gets
\* RequiresConfirmation = TRUE and the ALL NAMESPACES reason, also in warn-only
\* mode with neither the namespace nor the cluster protected.
C5_AllNamespacesForcesConfirmation ==
    (Evaluated /\ DangerousRun /\ cmd.AllNamespaces)
        => /\ result.RequiresConfirmation
           /\ Listed(result.Reasons, AllNamespacesReason)

C5_Witness ==
    /\ Evaluated
    /\ DangerousRun
    /\ cmd.AllNamespaces
    /\ cfg.Mode = ModeWarnOnly
    /\ ~Listed(cfg.ProtectedNamespaces, GetNamespaceDisplay(cmd))
    /\ ~Listed(cfg.ProtectedClusters, cluster)
    /\ result.RequiresConfirmation

\* the reason list that C7 prescribes
ExpectedReasons ==
    <<"dangerous operation: " \o cmd.Operation>>
    \o (IF cmd.AllNamespaces THEN <<AllNamespacesReason>> ELSE <<>>)
    \o (IF /\ ~cmd.AllNamespaces
           /\ cmd.Operation \notin {"cordon", "uncordon", "drain", "taint"}
           /\ Listed(cfg.ProtectedNamespaces, result.Namespace)
        THEN <<"protected namespace: " \o result.Namespace>> ELSE <<>>)
    \o (IF Listed(cfg.ProtectedClusters, cluster)
        THEN <<"protected cluster: " \o cluster>> ELSE <<>>)

\* C7: for a dangerous, non-dry-run command the Reasons of Check are exactly, in
\* this order and each at most once: the operation reason; the ALL NAMESPACES
\* reason iff AllNamespaces; the namespace reason iff not AllNamespaces, not
\* node-scoped and the displayed namespace protected; the cluster reason iff the
\* cluster is protected.
C7_ReasonsInOrder == (Evaluated /\ DangerousRun) => result.Reasons = ExpectedReasons

C7_Witness ==
    /\ Evaluated
    /\ DangerousRun
    /\ cmd.Operation = "delete"
    /\ result.Reasons = <<"dangerous operation: delete",
                          "protected namespace: production",
                          "protected cluster: prod-cluster">>

\* C8: for a dangerous, non-dry-run command without the all-namespaces flag,
\* RequiresConfirmation = (mode is confirm) or (the namespace is protected and
\* the operation is not node-scoped) or (the cluster is protected).
C8_ConfirmationRule ==
    (Evaluated /\ DangerousRun /\ ~cmd.AllNamespaces)
        => result.RequiresConfirmation =
              \/ cfg.Mode = ModeConfirm
              \/ /\ cmd.Operation \notin {"cordon", "uncordon", "drain", "taint"}
                 /\ Listed(cfg.ProtectedNamespaces, result.Namespace)
              \/ Listed(cfg.ProtectedClusters, cluster)

(* Properties of Runner.Run, under Spec *)

Executed == execCalls # <<>>

WarningShown == \E i \in DOMAIN stdout : stdout[i] = WarningText

AbortedShown == \E i \in DOMAIN stdout : stdout[i] = AbortedText

\* the answers given to the dangerous-operation prompt
DangerAsks == {i \in DOMAIN asked : asked[i].kind = "danger"}

\* the line was read, and trimmed and lower-cased it is y or yes
Affirmative(a) == a.ok /\ TrimSpace(ToLower(a.line)) \in {"y", "yes"}

NeedsConfirmation == result.IsDangerous /\ result.RequiresConfirmation

\* C1: on both paths of Run, when the verdict is dangerous with
\* RequiresConfirmation, executeKubectl is invoked only if the line read from
\* stdin, trimmed and lower-cased, is y or yes; after any other answer or a
\* failed read kubectl is not invoked, 'Operation aborted.' is printed and Run
\* returns nil.
C1_ExecutionNeedsAffirmativeAnswer ==
    NeedsConfirmation
        => /\ Executed => \E i \in DangerAsks : Affirmative(asked[i])
           /\ (pc = "done" /\ ~\E i \in DangerAsks : Affirmative(asked[i]))
                 => (~Executed /\ AbortedShown /\ ret = "nil")

C1_Witness ==
    /\ pc = "done"
    /\ NeedsConfirmation
    /\ cmd.FileInputs # <<>>
    /\ \E i \in DangerAsks : asked[i].line = "y" /\ ~asked[i].ok
    /\ ~Executed
    /\ AbortedShown
    /\ ret = "nil"

C1_WitnessConfirmed ==
    /\ pc = "done"
    /\ NeedsConfirmation
    /\ cmd.FileInputs = <<>>
    /\ \E i \in DangerAsks : asked[i].line = "Yes \n"
    /\ Executed

\* C3: a file-based dangerous command that carries a dry-run flag is executed
\* without the 'DANGEROUS OPERATION DETECTED' warning and without a
\* confirmation being read from stdin.
C3_DryRunFileInputSkipsWarning ==
    (cmd.FileInputs # <<>> /\ cmd.DryRun) => (~WarningShown /\ DangerAsks = {})

\* C6: a dangerous, non-dry-run command with the all-namespaces flag is executed
\* only after an affirmative answer to the confirmation prompt, in confirm and
\* in warn-only mode, with or without file inputs.
C6_AllNamespacesGated ==
    (cmd.AllNamespaces /\ ~cmd.DryRun /\ Listed(cfg.DangerousOperations, cmd.Operation)
        /\ Executed)
        => \E i \in DangerAsks : Affirmative(asked[i])

\* C6 on the path without file inputs, where it holds
C6_AllNamespacesGatedPlain ==
    (cmd.FileInputs = <<>> /\ cmd.AllNamespaces /\ ~cmd.DryRun
        /\ Listed(cfg.DangerousOperations, cmd.Operation) /\ Executed)
        => \E i \in DangerAsks : Affirmative(asked[i])

\* C16: when Run is called with non-empty args and loadConfig returns an
\* error, Run returns the error 'failed to load config', executeKubectl is never
\* invoked, no warning is displayed and no prompt is read.
C16_LoadConfigErrorStopsRun ==
    (Len(args) # 0 /\ loadErr) =>
        /\ pc \in {"start", "done"}
        /\ ~Executed
        /\ stdout = <<>>
        /\ asked = <<>>
        /\ pc = "done" => ret = "failed to load config"

C16_Witness ==
    /\ pc = "done"
    /\ loadErr
    /\ args = <<"delete", "pod", "nginx">>
    /\ ret = "failed to load config"
    /\ ~Executed

\* resolving one of the file inputs of the command fails
SourceFails == \E i \in DOMAIN cmd.FileInputs : files[cmd.FileInputs[i]].err

\* the user declined the confirmation of a remote fetch
FetchDeclined == \E i \in DOMAIN asked : asked[i].kind = "url" /\ ~asked[i].confirmed

\* C17: for a command with file inputs, if resolving any one of them fails, or
\* the user declines the remote-fetch confirmation, Run returns an error and
\* executeKubectl is never invoked, also for a non-dangerous operation and also
\* after earlier file inputs resolved successfully.
C17_ResolveFailureStopsRun ==
    (SourceFails \/ FetchDeclined) =>
        /\ ~Executed
        /\ pc # "execute"
        /\ pc = "done" => ret = "failed to parse"

\* the second file fails after the first one resolved to a resource
C17_Witness ==
    /\ pc = "done"
    /\ Len(cmd.FileInputs) = 2
    /\ ~files[cmd.FileInputs[1]].err /\ files[cmd.FileInputs[2]].err
    /\ resources # <<>>
    /\ ret = "failed to parse"
    /\ ~Executed

C17_WitnessDeclined ==
    pc = "done" /\ FetchDeclined /\ ~SourceFails /\ ret = "failed to parse"

C17_WitnessSafeOperation ==
    /\ pc = "done"
    /\ cmd.FileInputs # <<>>
    /\ ~Listed(cfg.DangerousOperations, cmd.Operation)
    /\ SourceFails
    /\ ret = "failed to parse"

\* the audit calls whose write failed
FailedAudits == {i \in DOMAIN auditCalls : auditCalls[i].failed}

\* C18: a failure of the audit write never changes the outcome: on the proceed
\* path Run prints a warning to stderr and still calls executeKubectl with the
\* same args; on the denied path the result stays nil and nothing is executed.
C18_AuditFailureIsNotFatal ==
    \A i \in FailedAudits :
        /\ \E j \in DOMAIN stderr : stderr[j] = AuditWarning
        /\ IF auditCalls[i].executed
           THEN /\ pc \in {"execute", "done"}
                /\ pc = "done" => execCalls = <<args>>
           ELSE pc = "done" /\ ret = "nil" /\ ~Executed

C18_Witness ==
    /\ pc = "done"
    /\ FailedAudits = {1}
    /\ auditCalls[1].executed
    /\ execCalls = <<args>>
    /\ stderr = <<AuditWarning>>

C18_WitnessDenied ==
    /\ pc = "done"
    /\ FailedAudits = {1}
    /\ ~auditCalls[1].executed
    /\ ret = "nil"
    /\ ~Executed

\* Check has found the command dangerous and it names no file
DangerousPlain == cmd.FileInputs = <<>> /\ result.IsDangerous

\* the user answered the dangerous-operation prompt with something but y or yes
Denied == \E i \in DangerAsks : ~asked[i].confirmed

\* C19: a Run of a dangerous plain command makes exactly one audit Log call:
\* (confirmed = false, executed = false), recorded as DENIED, iff the user
\* denied the prompt, and otherwise executed = true, recorded as EXECUTED and
\* issued before executeKubectl is called; a non-dangerous plain command makes
\* no audit Log call.
C19_OneAuditCallPerDangerousRun ==
    /\ (cmd.FileInputs = <<>> /\ ~result.IsDangerous) => auditCalls = <<>>
    /\ (DangerousPlain /\ pc \in {"execute", "done"}) =>
           /\ Len(auditCalls) = 1
           /\ IF Denied
              THEN /\ ~auditCalls[1].confirmed /\ ~auditCalls[1].executed
                   /\ auditCalls[1].status = "DENIED"
                   /\ ~Executed
              ELSE /\ auditCalls[1].executed
                   /\ auditCalls[1].status = "EXECUTED"
    /\ (DangerousPlain /\ pc \notin {"execute", "done"}) => auditCalls = <<>>

\* the EXECUTED call is on record while executeKubectl is still to be called
C19_Witness ==
    /\ pc = "execute"
    /\ DangerousPlain
    /\ ~Executed
    /\ Len(auditCalls) = 1
    /\ auditCalls[1].status = "EXECUTED"
    /\ auditCalls[1].confirmed

C19_WitnessDenied ==
    /\ pc = "done"
    /\ DangerousPlain
    /\ Denied
    /\ Len(auditCalls) = 1
    /\ auditCalls[1].status = "DENIED"

C19_WitnessSafe ==
    pc = "done" /\ args = <<"get", "pods", "-n", "kube-system">> /\ Executed
        /\ auditCalls = <<>>

\* C20: with audit enabled, a dangerous file-based command makes an audit
\* entry: EXECUTED when the user confirms, DENIED when the user denies.
C20_FileCommandAudited ==
    (pc = "done" /\ cfg.AuditEnabled /\ cmd.FileInputs # <<>> /\ result.IsDangerous
        /\ DangerAsks # {})
        => /\ Len(auditCalls) = 1
           /\ auditCalls[1].status = IF Denied THEN "DENIED" ELSE "EXECUTED"

\* C21: in every Run executeKubectl is called at most once; whenever it is
\* called it receives exactly the argument list passed to Run, on the
\* empty-args, safe, confirmed and warn-only paths alike; and the error it
\* returns is what Run returns.
C21_ArgsForwardedOnce ==
    /\ Len(execCalls) <= 1
    /\ \A i \in DOMAIN execCalls : execCalls[i] = args
    /\ (pc = "done" /\ Executed) => ret = kubectlErr

\* the confirmed path with a failing kubectl
C21_Witness ==
    /\ pc = "done"
    /\ execCalls = <<args>>
    /\ Len(args) > 0
    /\ \E i \in DangerAsks : asked[i].confirmed
    /\ kubectlErr = "kubectl error"
    /\ ret = "kubectl error"

C21_WitnessEmpty ==
    pc = "done" /\ args = <<>> /\ execCalls = <<args>> /\ ret = kubectlErr

C21_WitnessWarnOnly ==
    /\ pc = "done"
    /\ execCalls = <<args>>
    /\ result.IsDangerous /\ ~result.RequiresConfirmation
    /\ asked = <<>>

\* C22: for a dangerous plain command given without a namespace flag, the
\* namespace Run shows in the warning and evaluates for protection is the
\* namespace of the kubectl context in use, and "default" only when that
\* namespace is empty.
C22_NamespaceFromContext ==
    (DangerousPlain /\ cmd.Namespace = "" /\ cmd.Context = "" /\ ~cmd.AllNamespaces
        /\ ~result.IsNodeScoped)
        => result.Namespace = IF envNS # "" THEN envNS ELSE "default"

\* the part of C22 that holds: an explicit -n/--namespace is what is evaluated
C22_ExplicitNamespaceWins ==
    (DangerousPlain /\ cmd.Namespace # "") => result.Namespace = cmd.Namespace

\* the resources as the manifests give them, in the order of cmd.FileInputs
RECURSIVE ManifestResources(_)
ManifestResources(n) ==
    IF n = 0 THEN <<>>
    ELSE ManifestResources(n - 1) \o files[cmd.FileInputs[n]].resources

\* runWithFileInputs has called CheckResources
ResourcesChecked == "Resources" \in DOMAIN result

\* the fallback the claim prescribes
PrescribedFallback ==
    IF cmd.Namespace # "" THEN cmd.Namespace
    ELSE IF envNS # "" THEN envNS
    ELSE "default"

\* C23: in the file-input path a resource whose manifest gives no namespace is
\* evaluated with the -n/--namespace value if given, else the context's
\* namespace if non-empty, else "default"; a resource whose manifest gives a
\* namespace keeps it, whatever -n says.
C23_FallbackNamespacePriority ==
    ResourcesChecked =>
        LET raw == ManifestResources(Len(cmd.FileInputs))
        IN  /\ Len(result.Resources) = Len(raw)
            /\ \A i \in DOMAIN raw :
                   /\ result.Resources[i].Kind = raw[i].Kind
                   /\ result.Resources[i].Name = raw[i].Name
                   /\ result.Resources[i].Namespace =
                          IF raw[i].Namespace = "" THEN PrescribedFallback
                          ELSE raw[i].Namespace

\* no -n flag, a context namespace, and a manifest without a namespace
C23_Witness ==
    /\ ResourcesChecked
    /\ cmd.Namespace = "" /\ envNS = "staging"
    /\ Len(result.Resources) = 1
    /\ files[cmd.FileInputs[1]].resources[1].Namespace = ""
    /\ result.Resources[1].Namespace = "staging"

\* -n given: it fills the empty namespace and leaves the given one alone
C23_WitnessFlag ==
    /\ ResourcesChecked
    /\ cmd.Namespace = "production" /\ envNS = "staging"
    /\ Len(result.Resources) = 2
    /\ Len(files[cmd.FileInputs[1]].resources) = 1
    /\ files[cmd.FileInputs[1]].resources[1].Namespace = ""
    /\ result.Resources[1].Namespace = "production"
    /\ result.Resources[2].Namespace = "kube-system"

\* neither -n nor a context namespace
C23_WitnessDefault ==
    /\ ResourcesChecked
    /\ cmd.Namespace = "" /\ envNS = ""
    /\ Len(result.Resources) = 1
    /\ result.Resources[1].Namespace = "default"

(* Properties of the parser, under SpecParse *)

Parsed == pc = "parsed"

\* index of the first literal `--` token, 0 when there is none
FirstSeparator(a) ==
    IF \E i \in DOMAIN a : a[i] = "--"
    THEN CHOOSE i \in DOMAIN a : a[i] = "--" /\ \A j \in 1..(i - 1) : a[j] # "--"
    ELSE 0

\* every field of the parse result but Args
ParsedFields(c) ==
    <<c.Operation, c.Resource, c.Name, c.Namespace, c.Context, c.FileInputs,
      c.Recursive, c.AllNamespaces, c.DryRun>>

\* C9: the tokens after the first literal `--` influence no field of the parse
\* result other than Args, wherever the `--` stands: replacing them by any other
\* payload leaves Operation, Resource, Name, Namespace, Context, FileInputs,
\* Recursive, AllNamespaces and DryRun unchanged.
C9_SeparatorOpaque ==
    (Parsed /\ FirstSeparator(args) > 0)
        => \A t \in TailLists(MaxTail) :
              ParsedFields(Parse(SubSeq(args, 1, FirstSeparator(args)) \o t))
                  = ParsedFields(cmd)

\* C10: FileInputs is non-empty only if the parsed Operation is a file-input
\* operation; for any other operation -f/--filename tokens add nothing.
C10_FileInputsOnlyForFileOperations ==
    (Parsed /\ cmd.FileInputs # <<>>)
        => cmd.Operation \in {"apply", "delete", "create", "replace", "patch",
                              "annotate", "label", "scale"}

C10_Witness ==
    /\ Parsed
    /\ args = <<"-f", "kube-system", "delete", "-f=a.yaml">>
    /\ cmd.FileInputs = <<"kube-system", "a.yaml">>
    /\ cmd.Operation = "delete"

C10_WitnessFollow ==
    /\ Parsed
    /\ args = <<"logs", "pod/nginx", "-f", "-o">>
    /\ cmd.FileInputs = <<>>

\* C11: for every token list, the Name of the parsed command is non-empty only
\* if its Resource is non-empty, also for a slash-form token such as "/nginx"
\* whose part before the first "/" is empty.
C11_NameNeedsResource ==
    Parsed => (cmd.Name # "" => cmd.Resource # "")

(* Properties of the two spellings, under SpecSlash *)

Compared == pc = "compared"

\* C12 as stated: for every operation, kind K and name N without "/", the
\* separate form and the slash form both parse to Resource = K and Name = N.
C12_SlashEquivalenceAnyOperation ==
    Compared /\ ~Contains(args[3], "/") =>
        /\ cmd.Resource = args[2] /\ cmd.Name = args[3]
        /\ other.Resource = args[2] /\ other.Name = args[3]

\* C12, amended: when K is not a subcommand recognised for the operation, the
\* separate form and the slash form both parse to Resource = K and Name = N;
\* the slash form is split at its first "/" only, whatever follows it.
C12_SlashEquivalence ==
    Compared =>
        /\ other.Resource = args[2] /\ other.Name = args[3]
        /\ (~Contains(args[3], "/") /\ args[2] \notin operationsWithSubcommands(args[1]))
               => cmd.Resource = args[2] /\ cmd.Name = args[3]

C12_Witness ==
    /\ Compared
    /\ args = <<"rollout", "deployment", "nginx">>
    /\ cmd.Resource = "deployment" /\ cmd.Name = "nginx"
    /\ other.Resource = cmd.Resource /\ other.Name = cmd.Name

\* a slash-form token with a second "/" keeps it in the name
C12_WitnessFirstSlash ==
    Compared /\ args[3] = "web/v1" /\ other.Resource = "pod" /\ other.Name = "web/v1"

(* Properties of CheckResources, under SpecRes *)

ResChecked == pc \in {"rescalled", "resagain"}

\* the namespace a resource counts for, the empty one read as "default"
CountedNamespace(r) == IF r.Namespace = "" THEN "default" ELSE r.Namespace

\* the distinct protected namespaces the resource list touches
TouchedProtected ==
    {ns \in {CountedNamespace(resources[i]) : i \in DOMAIN resources} :
        Listed(cfg.ProtectedNamespaces, ns)}

\* the positions of r.Reasons that hold exactly the reason text
ReasonPositions(r, text) == {i \in DOMAIN r.Reasons : r.Reasons[i] = text}

NamespaceReasonPositions(r) ==
    {i \in DOMAIN r.Reasons : HasPrefix(r.Reasons[i], "protected namespace: ")}

\* C13: for a dangerous operation CheckResources gives one "protected
\* namespace: <ns>" reason per distinct protected namespace among the resources
\* (empty read as "default"), never one per resource: each touched protected
\* namespace is named once and the number of such reasons is their number.
C13_OneReasonPerProtectedNamespace ==
    ResChecked /\ Listed(cfg.DangerousOperations, cmd.Operation) =>
        /\ \A ns \in TouchedProtected :
               Cardinality(ReasonPositions(result, "protected namespace: " \o ns)) = 1
        /\ Cardinality(NamespaceReasonPositions(result)) = Cardinality(TouchedProtected)

\* three resources, two of them in the same protected namespace
C13_Witness ==
    /\ ResChecked
    /\ Len(resources) = 3
    /\ resources[1].Namespace = "kube-system" /\ resources[3].Namespace = "kube-system"
    /\ resources[2].Namespace = ""
    /\ TouchedProtected = {"kube-system", "default"}
    /\ Cardinality(NamespaceReasonPositions(result)) = 2

\* C14: two calls of CheckResources with the same operation, resource list,
\* cluster and policy return the same Reasons in the same order.
C14_ReasonsStable ==
    pc = "resagain" => other.Reasons = result.Reasons

\* C15: for a dangerous operation CheckResources returns RequiresConfirmation =
\* mode is confirm, or some resource's namespace (empty read as "default") is
\* protected, or the cluster is protected; for a non-dangerous operation it
\* returns IsDangerous = false, RequiresConfirmation = false and no reasons.
C15_ResourcesConfirmationRule ==
    ResChecked =>
        IF Listed(cfg.DangerousOperations, cmd.Operation)
        THEN /\ result.IsDangerous
             /\ result.RequiresConfirmation <=>
                    \/ cfg.Mode = ModeConfirm
                    \/ \E i \in DOMAIN resources :
                           Listed(cfg.ProtectedNamespaces, CountedNamespace(resources[i]))
                    \/ Listed(cfg.ProtectedClusters, cluster)
        ELSE SafeVerdict(result)

\* warn-only mode, unprotected cluster, confirmation forced by a namespace
C15_Witness ==
    /\ ResChecked
    /\ cfg.Mode = ModeWarnOnly
    /\ ~Listed(cfg.ProtectedClusters, cluster)
    /\ TouchedProtected # {}
    /\ result.IsDangerous /\ result.RequiresConfirmation

\* a non-dangerous operation on resources in protected namespaces
C15_WitnessSafe ==
    /\ ResChecked
    /\ ~Listed(cfg.DangerousOperations, cmd.Operation)
    /\ TouchedProtected # {}
    /\ SafeVerdict(result)

(* Properties of the flags of the parser, under SpecParse *)

\* the token at i is the value of a detached value flag standing before it,
\* that flag not being the value of the flag before it in turn
RECURSIVE ReadAsValue(_, _)
ReadAsValue(a, i) == i > 1 /\ a[i - 1] \in valueFlags /\ ~ReadAsValue(a, i - 1)

\* the token list with the token at i replaced by a word found nowhere else
Marked(a, i) == [a EXCEPT ![i] = "VALUE"]

\* Operation, Resource and Name of the parsed command are what they would be
\* with any other token at i, and the token at i is none of them
NeverPositional(i) ==
    LET c == Parse(Marked(args, i))
    IN  /\ c.Operation = cmd.Operation /\ c.Resource = cmd.Resource /\ c.Name = cmd.Name
        /\ "VALUE" \notin {c.Operation, c.Resource, c.Name}

\* C24 as stated: a token that directly follows a token of the value-flags
\* table without "=" never becomes the Operation, the Resource or the Name.
C24_FollowerOfValueFlagConsumed ==
    Parsed => \A i \in 2..Len(args) : args[i - 1] \in valueFlags => NeverPositional(i)

\* C24, amended: a token that directly follows a detached value flag, that flag
\* being read as a flag and not as the value of the flag before it, is consumed
\* as the flag's value and never becomes the Operation, the Resource or the Name.
C24_ValueOfFlagConsumed ==
    Parsed => \A i \in 2..Len(args) :
        (args[i - 1] \in valueFlags /\ ~ReadAsValue(args, i - 1)) => NeverPositional(i)

\* a value before the operation and a value after it
C24_Witness ==
    /\ Parsed
    /\ args = <<"-o", "delete", "logs", "pod/nginx">>
    /\ cmd.Operation = "logs" /\ cmd.Resource = "pod" /\ cmd.Name = "nginx"

C24_WitnessAfter ==
    /\ Parsed
    /\ args = <<"delete", "-n", "logs", "kube-system">>
    /\ cmd.Namespace = "logs" /\ cmd.Resource = "kube-system" /\ cmd.Name = ""

\* a flag token in `flag=value` form
EqualsForm(t) == HasPrefix(t, "-") /\ Contains(t, "=")

\* what stands after the first "=" of the token
AttachedValue(t) ==
    LET eq == CHOOSE k \in 1..Len(t) :
                  SubSeq(t, k, k) = "=" /\ \A j \in 1..(k - 1) : SubSeq(t, j, j) # "="
    IN  SubSeq(t, eq + 1, Len(t))

\* the token at i is the operation: the first token that is neither a flag nor
\* the value of one
OperationAt(a, i) ==
    /\ ~HasPrefix(a[i], "-") /\ ~ReadAsValue(a, i)
    /\ \A k \in 1..(i - 1) : HasPrefix(a[k], "-") \/ ReadAsValue(a, k)

\* the token at i stands behind a `--` separator that follows the operation
BehindSeparator(a, i) ==
    \E j \in 1..(i - 1) :
        a[j] = "--" /\ ~ReadAsValue(a, j) /\ \E k \in 1..(j - 1) : OperationAt(a, k)

\* the token at i is read by Parse as a flag of kubectl
ReadAsFlag(a, i) == HasPrefix(a[i], "-") /\ ~ReadAsValue(a, i) /\ ~BehindSeparator(a, i)

\* the command line has an operation that takes file inputs
FileOperation(a) ==
    \E k \in DOMAIN a : OperationAt(a, k) /\ a[k] \in fileInputOperations

\* Operation, Resource and Name are what they are with a flag at i that takes
\* no value at all
ConsumesNothing(i) ==
    LET c == Parse([args EXCEPT ![i] = "-v"])
    IN  c.Operation = cmd.Operation /\ c.Resource = cmd.Resource /\ c.Name = cmd.Name

\* -n= / --namespace= / --context= read as flags leave their attached value
AttachedNamespaceAndContext ==
    \A i \in DOMAIN args : ReadAsFlag(args, i) =>
        /\ (HasPrefix(args[i], "--context=") /\ ~\E j \in (i + 1)..Len(args) :
                ReadAsFlag(args, j) /\ BeforeEquals(args[j]) = "--context")
              => cmd.Context = AttachedValue(args[i])
        /\ ((HasPrefix(args[i], "-n=") \/ HasPrefix(args[i], "--namespace="))
              /\ ~\E j \in (i + 1)..Len(args) :
                    ReadAsFlag(args, j) /\ BeforeEquals(args[j]) \in {"-n", "--namespace"})
              => cmd.Namespace = AttachedValue(args[i])

\* C25 as stated: a flag in `flag=value` form never consumes the token after
\* it, and -n= / --namespace= / --context= / -f= / --filename= set Namespace,
\* Context and FileInputs from the attached value.
C25_EqualsFormSetsAttachedValue ==
    Parsed =>
        /\ \A i \in DOMAIN args : EqualsForm(args[i]) => ConsumesNothing(i)
        /\ AttachedNamespaceAndContext
        /\ \A i \in DOMAIN args :
               (ReadAsFlag(args, i)
                   /\ (HasPrefix(args[i], "-f=") \/ HasPrefix(args[i], "--filename=")))
               => \E k \in DOMAIN cmd.FileInputs :
                      cmd.FileInputs[k] = AttachedValue(args[i])

\* C25, amended: a flag in `flag=value` form never consumes the token after it;
\* -n= / --namespace= / --context= set Namespace and Context from the attached
\* value, and -f= / --filename= add the attached value to FileInputs when the
\* operation is one that takes file inputs.
C25_EqualsFormConsumesNothing ==
    Parsed =>
        /\ \A i \in DOMAIN args : EqualsForm(args[i]) => ConsumesNothing(i)
        /\ AttachedNamespaceAndContext
        /\ \A i \in DOMAIN args :
               (ReadAsFlag(args, i) /\ FileOperation(args)
                   /\ (HasPrefix(args[i], "-f=") \/ HasPrefix(args[i], "--filename=")))
               => \E k \in DOMAIN cmd.FileInputs :
                      cmd.FileInputs[k] = AttachedValue(args[i])

\* the token after --context=prod is the operation, the one after -f=a.yaml
\* the resource
C25_Witness ==
    /\ Parsed
    /\ args = <<"--context=prod", "delete", "-f=a.yaml", "pod/nginx">>
    /\ cmd.Operation = "delete" /\ cmd.Context = "prod"
    /\ cmd.FileInputs = <<"a.yaml">>
    /\ cmd.Resource = "pod" /\ cmd.Name = "nginx"

(* Properties of the subcommand skip, under SpecParse *)

\* the token at p is the first positional token after the operation at k
FirstPositionalAfter(a, k, p) ==
    /\ p > k
    /\ ~HasPrefix(a[p], "-") /\ ~ReadAsValue(a, p) /\ ~BehindSeparator(a, p)
    /\ \A j \in (k + 1)..(p - 1) : HasPrefix(a[j], "-") \/ ReadAsValue(a, j)

\* Resource and Name are what they are with a flag without value in place of
\* the token at p
SkippedAt(p) ==
    LET c == Parse([args EXCEPT ![p] = "-v"])
    IN  c.Resource = cmd.Resource /\ c.Name = cmd.Name

\* the kind a positional token names
KindOf(t) == IF Contains(t, "/") THEN SplitHead(t, "/") ELSE t

\* C26: for an operation with subcommands, when the first positional token
\* after the operation is one of its recognized subcommands it is skipped and
\* Resource and Name come from the positionals after it; when it is not a
\* recognized subcommand it is not skipped and becomes the Resource.
C26_SubcommandSkipped ==
    Parsed => \A k, p \in DOMAIN args :
        (OperationAt(args, k) /\ operationsWithSubcommands(args[k]) # {}
            /\ FirstPositionalAfter(args, k, p))
        => IF args[p] \in operationsWithSubcommands(args[k])
           THEN SkippedAt(p)
           ELSE HasPrefix(args[p], "/") \/ cmd.Resource = KindOf(args[p])

\* C26 where the subcommand stands directly after the operation: there it holds
C26_AdjacentSubcommandSkipped ==
    Parsed => \A k \in DOMAIN args :
        (OperationAt(args, k) /\ operationsWithSubcommands(args[k]) # {}
            /\ k < Len(args) /\ FirstPositionalAfter(args, k, k + 1))
        => IF args[k + 1] \in operationsWithSubcommands(args[k])
           THEN SkippedAt(k + 1)
           ELSE HasPrefix(args[k + 1], "/") \/ cmd.Resource = KindOf(args[k + 1])

(* Properties of the cluster of Runner.Run, under Spec *)

\* the positions of the --context flags Parse reads
ContextFlags(a) ==
    {i \in DOMAIN a : ReadAsFlag(a, i)
        /\ ((a[i] = "--context" /\ i < Len(a)) \/ HasPrefix(a[i], "--context="))}

\* the value of the last --context flag of the command line, "" without one
ContextFlagValue(a) ==
    IF ContextFlags(a) = {} THEN ""
    ELSE LET i == CHOOSE m \in ContextFlags(a) : \A j \in ContextFlags(a) : j <= m
         IN  IF a[i] = "--context" THEN a[i + 1] ELSE AttachedValue(a[i])

\* Run has passed Parse and the choice of the cluster
ClusterChosen == Len(args) > 0 /\ ~loadErr /\ pc \notin {"start", "parse"}

\* C27: the cluster Run evaluates against protectedClusters and shows in the
\* warning is the value of the --context flag whenever one is parsed, in either
\* form and before or after the operation, and the result of getCluster only
\* without such a flag; a dangerous command aimed at a protected cluster
\* through --context is treated as protected whatever the current context is.
C27_ContextFlagSelectsCluster ==
    ClusterChosen =>
        /\ cluster = IF ContextFlagValue(args) # "" THEN ContextFlagValue(args)
                     ELSE envCluster
        /\ result.IsDangerous =>
               /\ result.Cluster = cluster
               /\ Listed(cfg.ProtectedClusters, cluster) =>
                      /\ result.RequiresConfirmation
                      /\ \E i \in DOMAIN result.Reasons :
                             result.Reasons[i] = "protected cluster: " \o cluster

\* warn-only mode, current context unprotected, --context=prod-cluster protected
C27_Witness ==
    /\ pc = "confirm"
    /\ args = <<"--context=prod-cluster", "delete", "pod", "nginx">>
    /\ envCluster = "dev-cluster"
    /\ cfg.Mode = ModeWarnOnly
    /\ cfg.ProtectedNamespaces = <<"kube-system">>
    /\ cluster = "prod-cluster"
    /\ result.RequiresConfirmation

\* the detached form after the operation
C27_WitnessDetached ==
    /\ ClusterChosen
    /\ args = <<"delete", "pod", "nginx", "--context", "prod-cluster">>
    /\ envCluster = "dev-cluster"
    /\ result.IsDangerous /\ result.Cluster = "prod-cluster"

\* the file path: an unprotected --context under a protected current context
C27_WitnessFiles ==
    /\ ClusterChosen
    /\ args = <<"--context", "dev-cluster", "apply", "-f", "deploy.yaml">>
    /\ envCluster = "prod-cluster"
    /\ result.IsDangerous /\ result.Cluster = "dev-cluster"

\* no --context flag: the current context
C27_WitnessCurrent ==
    /\ ClusterChosen
    /\ args = <<"delete", "pod", "nginx">>
    /\ envCluster = "prod-cluster"
    /\ result.IsDangerous /\ result.Cluster = "prod-cluster"

(* Properties every verdict has, under Spec, SpecEval and SpecRes *)

WellFormedVerdict(r) ==
    /\ r.RequiresConfirmation => r.IsDangerous
    /\ r.IsDangerous <=> r.Reasons # <<>>
    /\ r.IsDangerous => r.Reasons[1] = "dangerous operation: " \o r.Operation

\* C28: every verdict Check and CheckResources return satisfies:
\* RequiresConfirmation implies IsDangerous; IsDangerous holds exactly when
\* Reasons is non-empty; and the first reason of a dangerous verdict is
\* 'dangerous operation: <op>' for the verdict's own Operation.
C28_VerdictWellFormed == WellFormedVerdict(result)

\* a verdict of Check with three reasons
C28_Witness ==
    /\ cmd.FileInputs = <<>>
    /\ result.IsDangerous /\ result.RequiresConfirmation
    /\ Len(result.Reasons) = 3
    /\ result.Reasons[1] = "dangerous operation: delete"

\* a verdict of CheckResources
C28_WitnessResources ==
    /\ ResourcesChecked
    /\ result.IsDangerous /\ ~result.RequiresConfirmation
    /\ result.Reasons = <<"dangerous operation: apply">>

\* a dry run of a dangerous operation: nothing is set
C28_WitnessDryRun ==
    /\ pc = "done" /\ cmd.DryRun /\ cmd.FileInputs = <<>>
    /\ Listed(cfg.DangerousOperations, cmd.Operation)
    /\ ~result.IsDangerous /\ ~result.RequiresConfirmation /\ result.Reasons = <<>>

(* Properties of the prompts of one Run, under Spec *)

\* the input without its first line
AfterFirstLine(s) ==
    LET nl == CHOOSE k \in 1..Len(s) :
                  SubSeq(s, k, k) = "\n" /\ \A j \in 1..(k - 1) : SubSeq(s, j, j) # "\n"
    IN  SubSeq(s, nl + 1, Len(s))

\* C29: when one Run asks more than one confirmation, each prompt consumes
\* exactly one line of stdin, so the k-th prompt is answered by the k-th line;
\* with the answers "y\ny\n" supplied up front the command is executed.
C29_OneLinePerPrompt ==
    /\ \A k \in 2..Len(asked) :
           asked[k - 1].ok => asked[k].input = AfterFirstLine(asked[k - 1].input)
    /\ (pc = "done" /\ Len(asked) = 2 /\ asked[1].input = "y\ny\n") => Executed

(* The two passes of Parse, under SpecParse *)

\* C30: for every token list the operation found by the lookahead pass
\* findOperation equals the Operation that the main pass of Parse stores,
\* whatever leading flags, detached values and "=" forms precede it.
C30_PassesAgreeOnOperation ==
    Parsed => cmd.Operation = findOperation(args)

\* a detached value and an "=" form before the operation
C30_Witness ==
    /\ Parsed
    /\ args = <<"-o", "delete", "--context=prod", "logs">>
    /\ cmd.Operation = "logs"
    /\ findOperation(args) = "logs"

\* a file-input flag before the operation it belongs to
C30_WitnessFileFlag ==
    /\ Parsed
    /\ args = <<"-f", "logs", "delete", "pod/nginx">>
    /\ cmd.Operation = "delete" /\ findOperation(args) = "delete"
    /\ cmd.FileInputs = <<"logs">>

====
